---- MODULE Spec2Model ----
(***************************************************************************)
(* State-machine model of wipe_bot.py: the poll view (WipePollView), the   *)
(* bot's scheduler tick (check_upcoming_wipes), the poll opening           *)
(* (send_wipe_poll), the push of a wipe type over WebRCON                  *)
(* (execute_rcon_command, set_wipe_type) and the two sqlite tables.        *)
(*                                                                         *)
(* Time is an integer number of seconds since Monday 1 January 2024,       *)
(* 00:00:00 UTC, so that datetime.weekday() is 0 at instant 0.             *)
(***************************************************************************)
EXTENDS Integers, Sequences, FiniteSets, TLC

VARIABLES
    config,       \* bot.config / bot.servers plus the guild's members and channels
    clock,        \* datetime.datetime.now(datetime.timezone.utc)
    nextTick,     \* instant of the next iteration of the check_upcoming_wipes loop
    views,        \* the WipePollView objects alive in this process
    wipe_polls,   \* table wipe_polls, keyed by server_name
    wipe_history, \* table wipe_history, in insertion order
    messages,     \* the messages sent to Discord, message id = index
    rcon_sent,    \* the wipeannouncer.setwipetype commands handed to the WebRCON transport
    resolutions,  \* message ids of the polls whose on_timeout reached its UPDATE
    response,     \* what the last button interaction answered
    restarts,     \* number of process restarts so far
    stopAt,       \* the instant after which the scheduler loop is no longer followed
    call          \* the last call made to the bot from outside the poll flow, and its return

vars == <<config, clock, nextTick, views, wipe_polls, wipe_history, messages,
          rcon_sent, resolutions, response, restarts, stopAt, call>>

-----------------------------------------------------------------------------
(* Bounds of the model *)

\* number of process restarts explored
MaxRestarts == 1

\* seconds after the scheduled wipe during which the scheduler loop still ticks
HorizonSlack == 0

-----------------------------------------------------------------------------
(* Program constants *)

HourSeconds == 3600          \* "- 3600": poll ends 1 hour before wipe
MinTimeout == 60             \* max(60, ...)
MaxTimeout == 86400          \* min(..., 86400)
DaySeconds == 86400          \* datetime.timedelta(days=1)
TickSeconds == 1800          \* tasks.loop(minutes=30)
HalfHourSeconds == 1800      \* hours_before - 0.5
DefaultPollHours == 24       \* config.get('poll_hours_before_wipe', 24)

MAP == "map"
BLUEPRINT == "blueprint"
FULL == "full"

\* the keys of self.votes / vote_counts in dict insertion order
VoteKeys == <<MAP, BLUEPRINT, FULL>>

WipeTypes == {MAP, BLUEPRINT, FULL}

None == "None"

-----------------------------------------------------------------------------
(* datetime helpers *)

\* datetime.weekday(): Monday is 0
weekday(t) == (t \div DaySeconds) % 7

\* datetime.replace(hour=h, minute=m, second=0, microsecond=0)
replace_time(t, h, m) == (t \div DaySeconds) * DaySeconds + h * HourSeconds + m * 60

\* The proleptic Gregorian calendar of datetime, from the year of instant 0 on
Epoch == [year |-> 2024, month |-> 1, day |-> 1]

CalendarYears == {Epoch.year, Epoch.year + 1, Epoch.year + 2}

IsLeap(y) == (y % 4 = 0 /\ y % 100 # 0) \/ y % 400 = 0

DaysInYear(y) == IF IsLeap(y) THEN 366 ELSE 365

DaysInMonth(y, m) ==
    IF m = 2 THEN (IF IsLeap(y) THEN 29 ELSE 28)
    ELSE IF m \in {4, 6, 9, 11} THEN 30
    ELSE 31

\* days from the first day of instant 0's year to 1 January of year y
RECURSIVE DaysBeforeYear(_)
DaysBeforeYear(y) == IF y <= Epoch.year THEN 0 ELSE DaysBeforeYear(y - 1) + DaysInYear(y - 1)

\* days from 1 January of year y to the first day of month m
RECURSIVE DaysBeforeMonth(_, _)
DaysBeforeMonth(y, m) == IF m <= 1 THEN 0 ELSE DaysBeforeMonth(y, m - 1) + DaysInMonth(y, m - 1)

\* datetime(y, m, d, hour, minute, 0) as an instant
datetime(y, m, d, hour, minute) ==
    (DaysBeforeYear(y) + DaysBeforeMonth(y, m) + (d - 1)) * DaySeconds
        + hour * HourSeconds + minute * 60

\* now.year and now.month
year(t) ==
    CHOOSE y \in CalendarYears :
        /\ DaysBeforeYear(y) <= t \div DaySeconds
        /\ t \div DaySeconds < DaysBeforeYear(y) + DaysInYear(y)

month(t) ==
    CHOOSE m \in 1..12 :
        /\ DaysBeforeYear(year(t)) + DaysBeforeMonth(year(t), m) <= t \div DaySeconds
        /\ t \div DaySeconds < DaysBeforeYear(year(t)) + DaysBeforeMonth(year(t), m)
                                    + DaysInMonth(year(t), m)

-----------------------------------------------------------------------------
(* Configuration (config.json) *)

\* ServerConfig: the fields the modelled code reads. An Optional field is the set
\* of its values: {} for None, {x} for x.
ServerConfig(name, dow, hour, minute, channel, admin_role) ==
    [name |-> name,
     discord_channel_id |-> channel,
     admin_role_id |-> admin_role,
     wipe_schedule |-> {[type |-> "weekly", day_of_week |-> dow, hour |-> hour, minute |-> minute]}]

\* The channels the bot can see (get_channel finds these ids only)
GuildChannels == {"chan1", "chan2"}

AdminRole == "admins"

\* One server, no admin role (admin_role_id falsy): every member may vote.
SoloServers == << ServerConfig("s1", 3, 14, 0, "chan1", None) >>

\* Two servers, both restricting the vote to AdminRole.
DuoServers == << ServerConfig("s1", 3, 14, 0, "chan1", AdminRole),
                 ServerConfig("s2", 3, 14, 30, "chan2", AdminRole) >>

\* Two servers, the first announcing in a channel the bot does not find.
LostServers == << ServerConfig("s1", 3, 14, 0, "chan0", AdminRole),
                  ServerConfig("s2", 3, 14, 30, "chan2", AdminRole) >>

\* member.roles for each guild member: member 1 holds the admin role
RolesOf(u) == IF u = 1 THEN {AdminRole} ELSE {}

\* The runs explored: a configuration, how long before the first tick that can
\* open a poll the process starts, and how long before the last server's wipe
\* the scheduler loop is last followed.  Several members vote with a lead time
\* of two hours; one member votes with the default lead time and with one that
\* exceeds the largest timeout; nobody votes with a lead time of one hour, which
\* leaves the view less than the smallest timeout.  In one run of two servers
\* the bot may not post to the channel of the first (config.forbidden: the
\* channels in which channel.send raises discord.Forbidden); in another the
\* channel of the first is not among the channels the bot finds.
Runs ==
    {[config |-> [servers |-> SoloServers, forbidden |-> {}, poll_hours_before_wipe |-> 2, users |-> {1, 2, 3}],
      offset |-> 0, stop |-> HourSeconds]}
    \cup {[config |-> [servers |-> DuoServers, forbidden |-> {}, poll_hours_before_wipe |-> 2,
                       users |-> {1, 2}],
           offset |-> 0, stop |-> HourSeconds]}
    \cup {[config |-> [servers |-> DuoServers, forbidden |-> {"chan1"}, poll_hours_before_wipe |-> 2,
                       users |-> {1}],
           offset |-> 0, stop |-> HourSeconds]}
    \cup {[config |-> [servers |-> LostServers, forbidden |-> {}, poll_hours_before_wipe |-> 2,
                       users |-> {1}],
           offset |-> 0, stop |-> HourSeconds]}
    \cup {[config |-> [servers |-> SoloServers, forbidden |-> {}, poll_hours_before_wipe |-> h, users |-> {1}],
           offset |-> d, stop |-> 0] : h \in {DefaultPollHours, 26}, d \in {0, 600}}
    \cup {[config |-> [servers |-> SoloServers, forbidden |-> {}, poll_hours_before_wipe |-> 1, users |-> {}],
           offset |-> d, stop |-> 0] : d \in {0, 600}}

\* self.servers: name -> ServerConfig (load_config)
ServerNames == {config.servers[i].name : i \in 1..Len(config.servers)}

servers(name) == config.servers[CHOOSE i \in 1..Len(config.servers) : config.servers[i].name = name]

\* a get_channel that finds every id
get_channel_Any(id) == id

\* bot.get_channel: None for an id the bot does not know
get_channel(id) == IF id \in GuildChannels THEN id ELSE None

-----------------------------------------------------------------------------
(* calculate_next_wipe *)

\* the weekly branch taking the instant of the rule itself for still ahead
next_weekly_SameInstant(ws, now) ==
    LET d0 == ws.day_of_week - weekday(now)
        days_ahead ==
            IF d0 < 0 THEN d0 + 7
            ELSE IF d0 = 0 /\ now > replace_time(now, ws.hour, ws.minute) THEN 7
            ELSE d0
    IN replace_time(now + days_ahead * DaySeconds, ws.hour, ws.minute)

\* the monthly branch that never looks at the following month
next_monthly_ThisMonthOnly(ws, now) ==
    LET first_day == datetime(year(now), month(now), 1, ws.hour, ws.minute)
    IN first_day + ((ws.day_of_week - weekday(first_day)) % 7) * DaySeconds

\* the branch schedule_type == 'monthly': the first target weekday of the month
next_monthly(ws, now) ==
    LET target_day == ws.day_of_week
        first_day == datetime(year(now), month(now), 1, ws.hour, ws.minute)
        first_thursday == first_day + ((target_day - weekday(first_day)) % 7) * DaySeconds
        next_first_day ==
            IF month(now) = 12
            THEN datetime(year(now) + 1, 1, 1, ws.hour, ws.minute)
            ELSE datetime(year(now), month(now) + 1, 1, ws.hour, ws.minute)
    IN IF now >= first_thursday
       THEN next_first_day + ((target_day - weekday(next_first_day)) % 7) * DaySeconds
       ELSE first_thursday

\* the weekly branch (the else of schedule_type == 'monthly')
next_weekly(ws, now) ==
    LET d0 == ws.day_of_week - weekday(now)
        days_ahead ==
            IF d0 < 0 THEN d0 + 7
            ELSE IF d0 = 0 /\ now >= replace_time(now, ws.hour, ws.minute) THEN 7
            ELSE d0
    IN replace_time(now + days_ahead * DaySeconds, ws.hour, ws.minute)

\* Optional[datetime]: {} for None
calculate_next_wipe(server_name, now) ==
    IF server_name \notin ServerNames THEN {}
    ELSE IF servers(server_name).wipe_schedule = {} THEN {}
    ELSE {IF ws.type = "monthly" THEN next_monthly(ws, now) ELSE next_weekly(ws, now) :
             ws \in servers(server_name).wipe_schedule}

-----------------------------------------------------------------------------
(* WipePollView *)

EmptyVotes == [k \in WipeTypes |-> {}]

\* WipePollView.__init__: the view's timeout, fixed from wipe_time and the clock
timeout_seconds(wipe_time, now) ==
    LET raw == (wipe_time - now) - HourSeconds
        capped == IF raw < MaxTimeout THEN raw ELSE MaxTimeout
    IN IF capped > MinTimeout THEN capped ELSE MinTimeout

\* A view as constructed by __init__ and handed to channel.send: pc is the
\* position of its on_timeout coroutine, deadline the instant the timeout elapses;
\* vote_counts, winner, success and row are on_timeout's local variables.
NewView(server_name, wipe_time, now, message_id) ==
    [server_name |-> server_name,
     wipe_time |-> wipe_time,
     timeout |-> timeout_seconds(wipe_time, now),
     deadline |-> now + timeout_seconds(wipe_time, now),
     message_id |-> message_id,
     votes |-> EmptyVotes,
     pc |-> "open",
     vote_counts |-> [k \in WipeTypes |-> 0],
     winner |-> None,
     success |-> FALSE,
     row |-> {}]

\* len() of each vote set
CountVotes(votes) == [k \in WipeTypes |-> Cardinality(votes[k])]

\* max(vote_counts) without key=: the largest key as a string, whatever the counts
MaxKey_NoKeyFunction(vote_counts) == MAP

\* max(vote_counts, key=vote_counts.get): the first key, in dict order, whose
\* count no other key exceeds
MaxKey(vote_counts) ==
    LET IsMax(i) == \A j \in 1..Len(VoteKeys) : vote_counts[VoteKeys[j]] <= vote_counts[VoteKeys[i]]
        first == CHOOSE i \in 1..Len(VoteKeys) : IsMax(i) /\ \A j \in 1..(i-1) : ~IsMax(j)
    IN VoteKeys[first]

\* on_timeout without its branch for an empty poll
SelectWinner_NoDefault(vote_counts) == MaxKey(vote_counts)

\* on_timeout, lines 80-84
SelectWinner(vote_counts) ==
    IF vote_counts[MAP] + vote_counts[BLUEPRINT] + vote_counts[FULL] = 0
    THEN FULL
    ELSE MaxKey(vote_counts)

\* The embed of an open poll with its displayed counts (send_wipe_poll, update_poll_message)
VoteEmbed(server_name, wipe_time, counts) ==
    [title |-> "vote", server_name |-> server_name, wipe_time |-> wipe_time,
     counts |-> counts, winner |-> None, success |-> FALSE]

\* The embed on_timeout writes when the poll has ended
EndedEmbed(server_name, wipe_time, counts, winner, success) ==
    [title |-> "ended", server_name |-> server_name, wipe_time |-> wipe_time,
     counts |-> counts, winner |-> winner, success |-> success]

-----------------------------------------------------------------------------
(* Table wipe_polls *)

NoRow == [poll_active |-> FALSE, message_id |-> 0, channel_id |-> None,
          wipe_time |-> 0, votes_map |-> 0, votes_bp |-> 0, votes_full |-> 0,
          winner |-> None, exists |-> FALSE]

\* INSERT OR REPLACE INTO wipe_polls (...) VALUES (?, ?, ?, ?, 1): the other
\* columns take their defaults
InsertPoll(message_id, channel_id, wipe_time) ==
    [poll_active |-> TRUE, message_id |-> message_id, channel_id |-> channel_id,
     wipe_time |-> wipe_time, votes_map |-> 0, votes_bp |-> 0, votes_full |-> 0,
     winner |-> None, exists |-> TRUE]

\* SELECT ... WHERE server_name = ? AND poll_active = 1
ActivePoll(polls, server_name) == polls[server_name].exists /\ polls[server_name].poll_active

-----------------------------------------------------------------------------
(* send_wipe_poll and check_upcoming_wipes *)

\* send_wipe_poll on the tables st = [views, wipe_polls, messages]
send_wipe_poll(st, server_name, wipe_time, now) ==
    LET server == servers(server_name)
        channel == get_channel(server.discord_channel_id)
        message_id == Len(st.messages) + 1
    IN IF channel = None THEN st
       ELSE IF channel \in config.forbidden THEN st   \* channel.send raises
       ELSE [views |-> Append(st.views, NewView(server_name, wipe_time, now, message_id)),
             messages |-> Append(st.messages, VoteEmbed(server_name, wipe_time, [k \in WipeTypes |-> 0])),
             wipe_polls |-> [st.wipe_polls EXCEPT ![server_name] = InsertPoll(message_id, channel, wipe_time)]]

\* the loop body without its check for an active poll
CheckServer_NoActiveCheck(st, server_name, now) ==
    LET next_wipe == calculate_next_wipe(server_name, now)
        hours_before == config.poll_hours_before_wipe
        InWindow(time_until_wipe) ==
            /\ hours_before * HourSeconds - HalfHourSeconds <= time_until_wipe
            /\ time_until_wipe <= hours_before * HourSeconds
    IN IF \E w \in next_wipe : InWindow(w - now)
       THEN send_wipe_poll(st, server_name, CHOOSE w \in next_wipe : TRUE, now)
       ELSE st

\* The body of the loop of check_upcoming_wipes for one server
CheckServer(st, server_name, now) ==
    IF ActivePoll(st.wipe_polls, server_name) THEN st
    ELSE
    LET next_wipe == calculate_next_wipe(server_name, now)
        hours_before == config.poll_hours_before_wipe
        InWindow(time_until_wipe) ==
            /\ hours_before * HourSeconds - HalfHourSeconds <= time_until_wipe
            /\ time_until_wipe <= hours_before * HourSeconds
    IN IF \E w \in next_wipe : InWindow(w - now)
       THEN send_wipe_poll(st, server_name, CHOOSE w \in next_wipe : TRUE, now)
       ELSE st

\* the loop body raises for this server: a poll is due and channel.send raises
Raises(st, server_name, now) ==
    /\ ~ActivePoll(st.wipe_polls, server_name)
    /\ get_channel(servers(server_name).discord_channel_id) \in config.forbidden
    /\ \E w \in calculate_next_wipe(server_name, now) :
          /\ config.poll_hours_before_wipe * HourSeconds - HalfHourSeconds <= w - now
          /\ w - now <= config.poll_hours_before_wipe * HourSeconds

RECURSIVE CheckFrom(_, _, _)

\* the loop without its try/except: an exception ends the iteration
CheckFrom_NoTry(i, st, now) ==
    IF i > Len(config.servers) THEN st
    ELSE IF Raises(st, config.servers[i].name, now) THEN st
    ELSE CheckFrom(i + 1, CheckServer(st, config.servers[i].name, now), now)

\* for server_name, server in self.servers.items(): in the order of the config;
\* an exception of the body is caught and logged, and the loop goes on
CheckFrom(i, st, now) ==
    IF i > Len(config.servers) THEN st
    ELSE CheckFrom(i + 1, CheckServer(st, config.servers[i].name, now), now)

\* The instant until which the scheduler loop is followed
Horizon == stopAt + HorizonSlack

\* One iteration of the tasks.loop
check_upcoming_wipes ==
    /\ nextTick = clock
    /\ nextTick <= Horizon
    /\ LET st == CheckFrom(1, [views |-> views, wipe_polls |-> wipe_polls, messages |-> messages], clock)
       IN /\ views' = st.views
          /\ wipe_polls' = st.wipe_polls
          /\ messages' = st.messages
    /\ nextTick' = clock + TickSeconds
    /\ UNCHANGED <<call, config, stopAt, restarts, clock, wipe_history, rcon_sent, resolutions, response>>

-----------------------------------------------------------------------------
(* The vote buttons *)

\* the handlers without their permission check
VoteDenied_Nobody(view, u) == FALSE

\* The permission check that opens map_vote, bp_vote and full_vote: true when
\* the handler answers "You don't have permission to vote." and returns
VoteDenied(view, u) ==
    /\ view.server_name \in ServerNames
    /\ servers(view.server_name).admin_role_id # None
    /\ servers(view.server_name).admin_role_id \notin RolesOf(u)

\* update_poll_message: the poll's message shows the current sizes of the vote sets
update_poll_message(msgs, view) ==
    [msgs EXCEPT ![view.message_id] =
        VoteEmbed(view.server_name, view.wipe_time, CountVotes(view.votes))]

\* map_vote without its two discards
cast_map_NoDiscard(votes, u) == [votes EXCEPT ![MAP] = @ \cup {u}]

\* bp_vote without its discard from the full set
cast_blueprint_KeepFull(votes, u) ==
    [votes EXCEPT ![MAP] = @ \ {u}, ![BLUEPRINT] = @ \cup {u}]

\* lines 172-177, 192-195 and 210-213: the new vote sets after member u's click
cast_map(votes, u) ==
    [votes EXCEPT ![BLUEPRINT] = @ \ {u}, ![FULL] = @ \ {u}, ![MAP] = @ \cup {u}]

cast_blueprint(votes, u) ==
    [votes EXCEPT ![MAP] = @ \ {u}, ![FULL] = @ \ {u}, ![BLUEPRINT] = @ \cup {u}]

cast_full(votes, u) ==
    [votes EXCEPT ![MAP] = @ \ {u}, ![BLUEPRINT] = @ \ {u}, ![FULL] = @ \cup {u}]

map_vote(v, u) ==
    /\ v \in DOMAIN views
    /\ u \in config.users
    /\ IF VoteDenied(views[v], u)
       THEN /\ response' = "denied"
            /\ UNCHANGED <<views, messages>>
       ELSE /\ views' = [views EXCEPT ![v].votes = cast_map(@, u)]
            /\ messages' = update_poll_message(messages, views'[v])
            /\ response' = "deferred"
    /\ UNCHANGED <<call, config, stopAt, restarts, clock, nextTick, wipe_polls, wipe_history, rcon_sent, resolutions>>

bp_vote(v, u) ==
    /\ v \in DOMAIN views
    /\ u \in config.users
    /\ IF VoteDenied(views[v], u)
       THEN /\ response' = "denied"
            /\ UNCHANGED <<views, messages>>
       ELSE /\ views' = [views EXCEPT ![v].votes = cast_blueprint(@, u)]
            /\ messages' = update_poll_message(messages, views'[v])
            /\ response' = "deferred"
    /\ UNCHANGED <<call, config, stopAt, restarts, clock, nextTick, wipe_polls, wipe_history, rcon_sent, resolutions>>

full_vote(v, u) ==
    /\ v \in DOMAIN views
    /\ u \in config.users
    /\ IF VoteDenied(views[v], u)
       THEN /\ response' = "denied"
            /\ UNCHANGED <<views, messages>>
       ELSE /\ views' = [views EXCEPT ![v].votes = cast_full(@, u)]
            /\ messages' = update_poll_message(messages, views'[v])
            /\ response' = "deferred"
    /\ UNCHANGED <<call, config, stopAt, restarts, clock, nextTick, wipe_polls, wipe_history, rcon_sent, resolutions>>

-----------------------------------------------------------------------------
(* execute_rcon_command and set_wipe_type *)

\* What can happen to one WebRCON exchange (run_command)
RconOutcomes == {"unreachable", "auth_rejected", "timeout", "malformed",
                 "empty_frame", "reply", "reply_no_message", "reply_blank"}

\* run_command whose except clause returns nothing when recv() times out
execute_rcon_command_TimeoutEmpty(outcome) ==
    CASE outcome \in {"unreachable", "auth_rejected", "malformed"} -> "Command likely executed"
      [] outcome = "timeout" -> ""
      [] outcome = "empty_frame" -> "Command executed"
      [] outcome = "reply_no_message" -> "Command executed"
      [] outcome = "reply" -> "wipe type set"
      [] outcome = "reply_blank" -> ""

\* The string execute_rcon_command returns for each outcome
execute_rcon_command(outcome) ==
    CASE outcome \in {"unreachable", "auth_rejected", "timeout", "malformed"} -> "Command likely executed"
      [] outcome = "empty_frame" -> "Command executed"
      [] outcome = "reply_no_message" -> "Command executed"
      [] outcome = "reply" -> "wipe type set"
      [] outcome = "reply_blank" -> ""

\* Python truthiness of the Optional[str] response
Truthy(resp) == resp # ""

\* The row set_wipe_type inserts into wipe_history
HistoryRow(server_name, wipe_type, user, now) ==
    [server_name |-> server_name, wipe_type |-> wipe_type, set_by |-> user,
     executed_at |-> now, success |-> TRUE]

\* set_wipe_type from the return of execute_rcon_command on: the new wipe_history
set_wipe_type_history(hist, server_name, wipe_type, user, resp, now) ==
    IF Truthy(resp) THEN Append(hist, HistoryRow(server_name, wipe_type, user, now)) ELSE hist

\* set_wipe_type returning True whatever the response
set_wipe_type_result_AlwaysTrue(resp) == TRUE

\* set_wipe_type's return value
set_wipe_type_result(resp) == Truthy(resp)

SystemUser == "Auto Poll System"

-----------------------------------------------------------------------------
(* WipePollView.on_timeout *)

\* the UPDATE setting the winner only
MarkInactive_WinnerOnly(polls, server_name, winner) ==
    IF polls[server_name].exists
    THEN [polls EXCEPT ![server_name].winner = winner]
    ELSE polls

\* UPDATE wipe_polls SET poll_active = 0, winner = ? WHERE server_name = ?
MarkInactive(polls, server_name, winner) ==
    IF polls[server_name].exists
    THEN [polls EXCEPT ![server_name].poll_active = FALSE, ![server_name].winner = winner]
    ELSE polls

\* SELECT channel_id, message_id ... AND poll_active = 1; fetchone()
SelectActive(polls, server_name) ==
    IF ActivePoll(polls, server_name)
    THEN {[channel_id |-> polls[server_name].channel_id, message_id |-> polls[server_name].message_id]}
    ELSE {}

\* on_timeout has returned: its local variables are gone
Returned(view) ==
    [view EXCEPT !.pc = "done", !.vote_counts = [k \in WipeTypes |-> 0],
                 !.winner = None, !.success = FALSE, !.row = {}]

\* The view's timeout elapses: on_timeout runs up to the await of the transport
\* (lines 72-94, set_wipe_type up to line 371)
on_timeout(v) ==
    /\ v \in DOMAIN views
    /\ views[v].pc = "open"
    /\ views[v].deadline <= clock
    /\ LET vote_counts == CountVotes(views[v].votes)
       IN views' = [views EXCEPT ![v].vote_counts = vote_counts,
                                 ![v].winner = SelectWinner(vote_counts),
                                 ![v].pc = "rcon"]
    /\ UNCHANGED <<call, config, stopAt, restarts, clock, nextTick, wipe_polls, wipe_history, messages,
                   rcon_sent, resolutions, response>>

\* The transport returns: set_wipe_type finishes (lines 373-384) and on_timeout
\* goes on to its SELECT (lines 97-106); without a row or a channel it runs
\* straight to the UPDATE (lines 124-128)
on_timeout_rcon(v, outcome) ==
    /\ v \in DOMAIN views
    /\ views[v].pc = "rcon"
    /\ outcome \in RconOutcomes
    /\ LET view == views[v]
           resp == execute_rcon_command(outcome)
           row == SelectActive(wipe_polls, view.server_name)
           editable == \E r \in row : get_channel(r.channel_id) # None
       IN /\ rcon_sent' = Append(rcon_sent, [server_name |-> view.server_name,
                                             wipe_type |-> view.winner])
          /\ wipe_history' = set_wipe_type_history(wipe_history, view.server_name,
                                                   view.winner, SystemUser, resp, clock)
          /\ views' = [views EXCEPT ![v] =
                          IF editable
                          THEN [@ EXCEPT !.success = set_wipe_type_result(resp),
                                         !.row = row, !.pc = "edit"]
                          ELSE Returned(@)]
          /\ wipe_polls' = IF editable THEN wipe_polls
                           ELSE MarkInactive(wipe_polls, view.server_name, view.winner)
          /\ resolutions' = IF editable THEN resolutions ELSE Append(resolutions, view.message_id)
    /\ UNCHANGED <<call, config, stopAt, restarts, clock, nextTick, messages, response>>

\* on_timeout announcing the sizes the vote sets have when the message is edited
on_timeout_finish_Recount(v, edited) ==
    /\ v \in DOMAIN views
    /\ views[v].pc = "edit"
    /\ edited \in BOOLEAN
    /\ LET view == views[v]
           r == CHOOSE r \in view.row : TRUE
       IN /\ messages' = IF edited
                         THEN [messages EXCEPT ![r.message_id] =
                                  EndedEmbed(view.server_name, view.wipe_time,
                                             CountVotes(view.votes),
                                             SelectWinner(CountVotes(view.votes)), view.success)]
                         ELSE messages
          /\ wipe_polls' = MarkInactive(wipe_polls, view.server_name, view.winner)
          /\ resolutions' = Append(resolutions, view.message_id)
    /\ views' = [views EXCEPT ![v] = Returned(@)]
    /\ UNCHANGED <<call, config, stopAt, restarts, clock, nextTick, wipe_history, rcon_sent, response>>

\* fetch_message and message.edit return or raise (lines 107-121), then the
\* UPDATE marks the poll inactive (lines 124-128)
on_timeout_finish(v, edited) ==
    /\ v \in DOMAIN views
    /\ views[v].pc = "edit"
    /\ edited \in BOOLEAN
    /\ LET view == views[v]
           r == CHOOSE r \in view.row : TRUE
       IN /\ messages' = IF edited
                         THEN [messages EXCEPT ![r.message_id] =
                                  EndedEmbed(view.server_name, view.wipe_time, view.vote_counts,
                                             view.winner, view.success)]
                         ELSE messages
          /\ wipe_polls' = MarkInactive(wipe_polls, view.server_name, view.winner)
          /\ resolutions' = Append(resolutions, view.message_id)
    /\ views' = [views EXCEPT ![v] = Returned(@)]
    /\ UNCHANGED <<call, config, stopAt, restarts, clock, nextTick, wipe_history, rcon_sent, response>>

-----------------------------------------------------------------------------
(* The process and the clock *)

\* The process stops and starts again: the views and their timers are lost, the
\* database and the messages stay, setup_hook starts the loop, which ticks at once
Restart ==
    /\ restarts < MaxRestarts
    /\ restarts' = restarts + 1
    /\ views' = << >>
    /\ nextTick' = clock
    /\ UNCHANGED <<call, config, stopAt, clock, wipe_polls, wipe_history, messages, rcon_sent,
                   resolutions, response>>

TickDue == nextTick = clock /\ nextTick <= Horizon

\* the future instants at which a tick or a view timeout is scheduled
Pending ==
    {t \in {nextTick} : t > clock /\ t <= Horizon}
    \cup {views[v].deadline : v \in {w \in DOMAIN views : views[w].pc = "open"}}

Earliest(S) == CHOOSE t \in S : \A x \in S : t <= x

\* Time passes up to the next scheduled instant, once everything due now has run
Advance ==
    /\ ~TickDue
    /\ \A v \in DOMAIN views : views[v].pc \in {"open", "done"}
    /\ \A v \in DOMAIN views : views[v].pc = "open" => views[v].deadline > clock
    /\ Pending # {}
    /\ clock' = Earliest(Pending)
    /\ UNCHANGED <<call, config, stopAt, restarts, nextTick, views, wipe_polls, wipe_history, messages,
                   rcon_sent, resolutions, response>>

\* the scheduled wipe of the i-th configured server in the reference week
WipeOf(cfg, i) ==
    LET ws == CHOOSE w \in cfg.servers[i].wipe_schedule : TRUE
    IN ws.day_of_week * DaySeconds + ws.hour * HourSeconds + ws.minute * 60

\* no call has been made
NoCall == [n |-> 0, fn |-> None, server_name |-> None, wipe_type |-> None,
           outcome |-> None, response |-> None, result |-> FALSE]

\* The process has just started (setup_hook): empty tables, no view, first tick due
InitRuns(runs) ==
    /\ \E run \in runs :
          /\ config = run.config
          /\ clock = WipeOf(run.config, 1) - run.config.poll_hours_before_wipe * HourSeconds
                        - TickSeconds - run.offset
          /\ stopAt = WipeOf(run.config, Len(run.config.servers)) - run.stop
    /\ nextTick = clock
    /\ views = << >>
    /\ wipe_polls = [n \in ServerNames |-> NoRow]
    /\ wipe_history = << >>
    /\ messages = << >>
    /\ rcon_sent = << >>
    /\ resolutions = << >>
    /\ response = None
    /\ restarts = 0
    /\ call = NoCall

Init == InitRuns(Runs)

Next ==
    \/ check_upcoming_wipes
    \/ Advance
    \/ \E v \in DOMAIN views, u \in config.users : map_vote(v, u)
    \/ \E v \in DOMAIN views, u \in config.users : bp_vote(v, u)
    \/ \E v \in DOMAIN views, u \in config.users : full_vote(v, u)
    \/ \E v \in DOMAIN views : on_timeout(v)
    \/ \E v \in DOMAIN views, outcome \in RconOutcomes : on_timeout_rcon(v, outcome)
    \/ \E v \in DOMAIN views, edited \in BOOLEAN : on_timeout_finish(v, edited)
    \/ Restart

Spec == Init /\ [][Next]_vars

-----------------------------------------------------------------------------
(* set_wipe_type called directly *)

\* number of direct calls of set_wipe_type explored
MaxCalls == 1

\* the user of a direct call, as str(user)
ManualUser == "admin"

\* the server names a direct call is made with: the configured ones and one
\* that is not in self.servers
CallNames == ServerNames \cup {"nowhere"}

\* the settings a direct call is made with: one the poll of an empty vote also
\* selects, and one it does not
CallTypes == {MAP, FULL}

\* One server whose poll opens two hours before the wipe, one voting member
ManualRuns ==
    {[config |-> [servers |-> SoloServers, forbidden |-> {}, poll_hours_before_wipe |-> 2, users |-> {1}],
      offset |-> 0, stop |-> HourSeconds]}

\* set_wipe_type that also closes the server's stored poll
set_wipe_type_ClosesPoll(server_name, wipe_type, user, outcome) ==
    /\ call.n < MaxCalls
    /\ server_name \in ServerNames
    /\ outcome \in RconOutcomes
    /\ rcon_sent' = Append(rcon_sent, [server_name |-> server_name, wipe_type |-> wipe_type])
    /\ wipe_history' = set_wipe_type_history(wipe_history, server_name, wipe_type, user,
                                             execute_rcon_command(outcome), clock)
    /\ wipe_polls' = MarkInactive(wipe_polls, server_name, wipe_type)
    /\ call' = [n |-> call.n + 1, fn |-> "set_wipe_type", server_name |-> server_name,
                wipe_type |-> wipe_type, outcome |-> outcome,
                response |-> execute_rcon_command(outcome),
                result |-> set_wipe_type_result(execute_rcon_command(outcome))]
    /\ UNCHANGED <<config, stopAt, restarts, clock, nextTick, views, messages,
                   resolutions, response>>

\* await bot.set_wipe_type(server_name, wipe_type, user) from its first line to
\* its return, the WebRCON exchange included
set_wipe_type(server_name, wipe_type, user, outcome) ==
    /\ call.n < MaxCalls
    /\ IF server_name \notin ServerNames
       THEN /\ outcome = None
            /\ call' = [n |-> call.n + 1, fn |-> "set_wipe_type", server_name |-> server_name,
                        wipe_type |-> wipe_type, outcome |-> None, response |-> None,
                        result |-> FALSE]
            /\ UNCHANGED <<wipe_history, rcon_sent>>
       ELSE /\ outcome \in RconOutcomes
            /\ LET resp == execute_rcon_command(outcome)
               IN /\ rcon_sent' = Append(rcon_sent, [server_name |-> server_name,
                                                     wipe_type |-> wipe_type])
                  /\ wipe_history' = set_wipe_type_history(wipe_history, server_name, wipe_type,
                                                           user, resp, clock)
                  /\ call' = [n |-> call.n + 1, fn |-> "set_wipe_type",
                              server_name |-> server_name, wipe_type |-> wipe_type,
                              outcome |-> outcome, response |-> resp,
                              result |-> set_wipe_type_result(resp)]
    /\ UNCHANGED <<config, stopAt, restarts, clock, nextTick, views, wipe_polls, messages,
                   resolutions, response>>

InitManual == InitRuns(ManualRuns)

NextManual ==
    \/ Next
    \/ \E server_name \in CallNames, wipe_type \in CallTypes, outcome \in RconOutcomes \cup {None} :
          set_wipe_type(server_name, wipe_type, ManualUser, outcome)

SpecManual == InitManual /\ [][NextManual]_vars

-----------------------------------------------------------------------------
(* /wipestatus: the next wipe of each server *)

\* number of days from instant 0 over which the command is asked
ScanDays == 430

\* one server with the given rule
ScheduleServers(type, dow, hour, minute) ==
    << [ServerConfig("s1", dow, hour, minute, "chan1", None) EXCEPT
           !.wipe_schedule = {[type |-> type, day_of_week |-> dow, hour |-> hour,
                               minute |-> minute]}] >>

\* the rules asked about: every weekday, at midnight, in the afternoon and in
\* the last minute of the day, weekly and monthly
ScheduleConfigs ==
    {[servers |-> ScheduleServers(type, dow, hm[1], hm[2]), forbidden |-> {},
      poll_hours_before_wipe |-> DefaultPollHours, users |-> {}] :
        type \in {"weekly", "monthly"}, dow \in 0..6, hm \in {<<0, 0>>, <<14, 0>>, <<23, 59>>}}

\* the rule of the server asked about
RuleOf(cfg) == CHOOSE ws \in cfg.servers[1].wipe_schedule : TRUE

\* the instants of a day at which the command is asked, relative to the rule's
\* time of day: an hour before, a second before, at it, a second and an hour after
ScanOffsets == {0 - HourSeconds, 0 - 1, 0, 1, HourSeconds}

\* the first such instant after t
NextScan(t) ==
    LET ws == RuleOf(config)
        today == t \div DaySeconds
        later == {d * DaySeconds + ws.hour * HourSeconds + ws.minute * 60 + o :
                     d \in (today - 1)..(today + 2), o \in ScanOffsets}
    IN Earliest({c \in later : c > t})

\* The command /wipestatus at instant now: calculate_next_wipe of every server
wipe_status(now) ==
    /\ now <= ScanDays * DaySeconds
    /\ clock' = now
    /\ call' = [n |-> call.n + 1, fn |-> "wipestatus", server_name |-> None, wipe_type |-> None,
                outcome |-> None, response |-> None,
                result |-> [name \in ServerNames |-> calculate_next_wipe(name, now)]]
    /\ UNCHANGED <<config, stopAt, restarts, nextTick, views, wipe_polls, wipe_history,
                   messages, rcon_sent, resolutions, response>>

InitSchedule ==
    /\ config \in ScheduleConfigs
    /\ clock = 0
    /\ stopAt = 0
    /\ nextTick = 0
    /\ views = << >>
    /\ wipe_polls = [n \in ServerNames |-> NoRow]
    /\ wipe_history = << >>
    /\ messages = << >>
    /\ rcon_sent = << >>
    /\ resolutions = << >>
    /\ response = None
    /\ restarts = 0
    /\ call = NoCall

NextSchedule == \E now \in {NextScan(clock)} : wipe_status(now)

SpecSchedule == InitSchedule /\ [][NextSchedule]_vars

-----------------------------------------------------------------------------
(* Winner selection (on_timeout) *)

ZeroCounts == [k \in WipeTypes |-> 0]

\* the keys holding the largest count
Leaders(counts) == {k \in WipeTypes : \A j \in WipeTypes : counts[j] <= counts[k]}

\* on_timeout has just started for view v: it left "open" in this step
Resolving(v) ==
    /\ v \in DOMAIN views /\ v \in DOMAIN views'
    /\ views[v].pc = "open" /\ views'[v].pc = "rcon"

\* the transport has just returned to the on_timeout of view v
Pushed(v) ==
    /\ v \in DOMAIN views /\ v \in DOMAIN views'
    /\ views[v].pc = "rcon" /\ views'[v].pc # "rcon"

\* C1: when a poll resolves and two or more settings share the largest vote
\* count, the winner on_timeout selects is FULL.
C1_TieResolvesToFull ==
    [][\A v \in DOMAIN views :
          (Resolving(v) /\ Cardinality(Leaders(CountVotes(views[v].votes))) >= 2)
              => views'[v].winner = FULL]_vars

\* C2: a poll that resolves with all three vote sets empty selects FULL, and the
\* command handed to the transport by set_wipe_type carries "full".
C2_NoVotesPushesFull ==
    [][\A v \in DOMAIN views :
          /\ (Resolving(v) /\ CountVotes(views[v].votes) = ZeroCounts)
                => views'[v].winner = FULL
          /\ (Pushed(v) /\ views[v].vote_counts = ZeroCounts)
                => rcon_sent' = Append(rcon_sent, [server_name |-> views[v].server_name,
                                                   wipe_type |-> FULL])]_vars

C2_Witness ==
    \E v \in DOMAIN views :
        /\ views[v].pc = "edit"
        /\ views[v].votes = EmptyVotes
        /\ views[v].vote_counts = ZeroCounts
        /\ views[v].winner = FULL
        /\ rcon_sent # << >>
        /\ rcon_sent[Len(rcon_sent)] = [server_name |-> views[v].server_name, wipe_type |-> FULL]

\* C3: when a poll resolves and one setting's vote set is strictly larger than
\* both others, that setting is the winner.
C3_StrictLargestWins ==
    [][\A v \in DOMAIN views : \A k \in WipeTypes :
          (/\ Resolving(v)
           /\ \A j \in WipeTypes \ {k} :
                 Cardinality(views[v].votes[j]) < Cardinality(views[v].votes[k]))
              => views'[v].winner = k]_vars

C3_Witness ==
    \E v \in DOMAIN views :
        /\ views[v].pc = "rcon"
        /\ Cardinality(views[v].votes[BLUEPRINT]) = 2
        /\ Cardinality(views[v].votes[MAP]) = 1
        /\ views[v].vote_counts = CountVotes(views[v].votes)
        /\ views[v].winner = BLUEPRINT

-----------------------------------------------------------------------------
(* Votes *)

\* the vote sets of view v that hold member u
VotesOf(view, u) == {k \in WipeTypes : u \in view.votes[k]}

\* C4: in every reachable state each member is in at most one of the three vote
\* sets of a poll.
C4_OneVotePerVoter ==
    \A v \in DOMAIN views : \A u \in config.users : Cardinality(VotesOf(views[v], u)) <= 1

C4_Witness ==
    \E v \in DOMAIN views :
        /\ views[v].votes[MAP] # {}
        /\ views[v].votes[BLUEPRINT] # {}
        /\ views[v].votes[FULL] # {}
        /\ response = "deferred"

\* an accepted click of member u on button k of view v
Accepted(v, u, k) ==
    /\ v \in DOMAIN views
    /\ response' = "deferred"
    /\ ~VoteDenied(views[v], u)
    /\ CASE k = MAP -> map_vote(v, u)
         [] k = BLUEPRINT -> bp_vote(v, u)
         [] k = FULL -> full_vote(v, u)

\* C5: after an accepted vote of a member for a setting the member is in that
\* setting's vote set and in no other, so the member counts once in the tally;
\* the other members' votes are as before; a vote for the setting the member
\* already holds changes no vote set; and nothing but the member's own click
\* changes which set holds the member.
C5_VoteIdempotent ==
    [][/\ \A v \in DOMAIN views : \A u \in config.users : \A k \in WipeTypes :
             Accepted(v, u, k) =>
                 /\ VotesOf(views'[v], u) = {k}
                 /\ \A w \in config.users \ {u} : VotesOf(views'[v], w) = VotesOf(views[v], w)
                 /\ (u \in views[v].votes[k] => views'[v].votes = views[v].votes)
       /\ \A v \in DOMAIN views \cap DOMAIN views' : \A u \in config.users :
             VotesOf(views'[v], u) # VotesOf(views[v], u) =>
                 \E k \in WipeTypes : Accepted(v, u, k)]_vars

C5_Witness ==
    \E v \in DOMAIN views : \E u \in config.users :
        /\ response = "deferred"
        /\ VotesOf(views[v], u) = {MAP}
        /\ CountVotes(views[v].votes) = [ZeroCounts EXCEPT ![MAP] = 1]
        /\ messages[views[v].message_id].counts = [ZeroCounts EXCEPT ![MAP] = 1]

\* C6: a click on a button of a poll that is not open (its on_timeout has
\* started or returned) changes no vote set, no message and no stored poll, and
\* is answered with a rejection.
C6_ClosedPollRejectsVote ==
    [][\A v \in DOMAIN views : \A u \in config.users :
          (views[v].pc # "open" /\ (map_vote(v, u) \/ bp_vote(v, u) \/ full_vote(v, u)))
              => /\ views' = views
                 /\ wipe_polls' = wipe_polls
                 /\ messages' = messages
                 /\ response' = "denied"]_vars

-----------------------------------------------------------------------------
(* Sessions *)

\* the views of a server whose timeout has not elapsed
OpenViews(server_name) ==
    {v \in DOMAIN views : views[v].server_name = server_name /\ views[v].pc = "open"}

\* a tick finds the wipe of the server's stored active poll inside the window
InWindowNow(server_name) ==
    /\ config.poll_hours_before_wipe * HourSeconds - HalfHourSeconds
          <= wipe_polls[server_name].wipe_time - clock
    /\ wipe_polls[server_name].wipe_time - clock <= config.poll_hours_before_wipe * HourSeconds

\* C7: a server never has two open poll sessions, and a scheduler tick that
\* finds the server's stored poll active leaves that row as it is, creates no
\* view for the server and sends no poll message for it.
C7_OneOpenSessionPerServer ==
    /\ [](\A n \in ServerNames : Cardinality(OpenViews(n)) <= 1)
    /\ [][check_upcoming_wipes =>
            \A n \in ServerNames : ActivePoll(wipe_polls, n) =>
                /\ wipe_polls'[n] = wipe_polls[n]
                /\ \A v \in DOMAIN views' \ DOMAIN views : views'[v].server_name # n
                /\ \A m \in DOMAIN messages' \ DOMAIN messages : messages'[m].server_name # n]_vars

\* a tick has just run inside the window of a server whose poll, opened by an
\* earlier tick, is still open
C7_Witness ==
    \E n \in ServerNames :
        /\ nextTick = clock + TickSeconds
        /\ ActivePoll(wipe_polls, n)
        /\ InWindowNow(n)
        /\ \E v \in OpenViews(n) : views[v].deadline - views[v].timeout < clock
        /\ Len(messages) = 1

\* how often the poll announced by message m has been resolved
TimesResolved(m) == Cardinality({i \in DOMAIN resolutions : resolutions[i] = m})

\* nothing is scheduled any more and no on_timeout is under way
Quiet ==
    /\ ~TickDue
    /\ Pending = {}
    /\ \A v \in DOMAIN views : views[v].pc = "done"

\* C8: no poll session is resolved twice, and once nothing is left to run every
\* session that was opened has been resolved once.
C8_ResolvedExactlyOnce ==
    \A m \in DOMAIN messages :
        /\ TimesResolved(m) <= 1
        /\ Quiet => TimesResolved(m) = 1

\* C9: the resolution of a poll session runs at the wipe instant minus one hour.
C9_ResolvesOneHourBeforeWipe ==
    \A v \in DOMAIN views :
        views[v].pc \in {"rcon", "edit"} => clock = views[v].wipe_time - HourSeconds

\* what the transport call achieved: a reply, or the soft success of a reply
\* that never came, against a connection, credential or protocol failure
TransportOk(outcome) ==
    outcome \in {"reply", "reply_no_message", "reply_blank", "empty_frame", "timeout"}

\* C10: the return of the transport call to a poll's resolution appends one row
\* to wipe_history, whose success column tells whether the transport succeeded.
C10_OneHistoryRowPerResolution ==
    [][\A v \in DOMAIN views : \A outcome \in RconOutcomes :
          on_timeout_rcon(v, outcome) =>
              /\ Len(wipe_history') = Len(wipe_history) + 1
              /\ wipe_history'[Len(wipe_history')].success = TransportOk(outcome)]_vars

-----------------------------------------------------------------------------
(* Restart *)

\* the resolution time of the server's stored poll (its wipe time minus one
\* hour) lies before the clock
Overdue(server_name) ==
    /\ ActivePoll(wipe_polls, server_name)
    /\ wipe_polls[server_name].wipe_time - HourSeconds < clock

\* C11: the first pass of a restarted process, which holds no poll view, over a
\* server whose stored poll is active with its resolution time in the past
\* resolves that poll: the stored poll is no longer active afterwards and its
\* setting has been handed to the transport.
C11_RestartResolvesOverduePoll ==
    [][(check_upcoming_wipes /\ restarts > 0 /\ views = << >>) =>
          \A n \in ServerNames : Overdue(n) =>
              /\ ~ActivePoll(wipe_polls', n)
              /\ Len(rcon_sent') > Len(rcon_sent)]_vars

-----------------------------------------------------------------------------
(* The transport and the direct call *)

\* C12: when the WebRCON exchange times out without a reply, the transport
\* returns a non-empty placeholder string and set_wipe_type treats it as success:
\* it inserts its history row with success true and returns True, in a direct
\* call as in a poll's resolution.
C12_TimeoutIsSoftSuccess ==
    [][/\ \A n \in ServerNames : \A wt \in WipeTypes :
             set_wipe_type(n, wt, ManualUser, "timeout") =>
                 /\ call'.response \notin {"", None}
                 /\ call'.result = TRUE
                 /\ wipe_history' = Append(wipe_history,
                        [server_name |-> n, wipe_type |-> wt, set_by |-> ManualUser,
                         executed_at |-> clock, success |-> TRUE])
       /\ \A v \in DOMAIN views :
             on_timeout_rcon(v, "timeout") =>
                 /\ Len(wipe_history') = Len(wipe_history) + 1
                 /\ wipe_history'[Len(wipe_history')].success = TRUE
                 /\ views'[v].pc = "edit" => views'[v].success = TRUE]_vars

C12_Witness ==
    /\ call.outcome = "timeout"
    /\ call.response = "Command likely executed"
    /\ call.result = TRUE
    /\ wipe_history # << >>
    /\ wipe_history[Len(wipe_history)].set_by = ManualUser
    /\ wipe_history[Len(wipe_history)].success = TRUE

\* the failures of the exchange other than a reply that never came
HardFailures == {"unreachable", "auth_rejected", "malformed"}

\* C13: when the WebRCON exchange fails because the connection is refused, the
\* credential is rejected or the reply is malformed, set_wipe_type reports
\* failure: it returns False and writes no history row.
C13_HardFailureReportsError ==
    [][\A n \in ServerNames : \A wt \in WipeTypes : \A outcome \in HardFailures :
          set_wipe_type(n, wt, ManualUser, outcome) =>
              /\ call'.result = FALSE
              /\ wipe_history' = wipe_history]_vars

\* C14: a direct call of set_wipe_type changes no view (the poll stays open
\* with its vote sets), no stored poll and no poll message; a poll that resolves
\* selects the winner of its own vote sets and hands that winner to the
\* transport; and, unless the process restarted, every poll opened has been
\* resolved once nothing is left to run.
C14_OverrideLeavesPollOpen ==
    /\ [][\A n \in CallNames : \A wt \in WipeTypes : \A outcome \in RconOutcomes \cup {None} :
             set_wipe_type(n, wt, ManualUser, outcome) =>
                 /\ views' = views
                 /\ wipe_polls' = wipe_polls
                 /\ messages' = messages]_vars
    /\ [][\A v \in DOMAIN views :
             /\ Resolving(v) => views'[v].winner = SelectWinner(CountVotes(views[v].votes))
             /\ Pushed(v) => rcon_sent' = Append(rcon_sent, [server_name |-> views[v].server_name,
                                                             wipe_type |-> views[v].winner])]_vars
    /\ []((Quiet /\ restarts = 0) => \A m \in DOMAIN messages : TimesResolved(m) = 1)

\* map was set by a direct call while the poll was open, and the poll, which
\* nobody voted in, has later pushed full
C14_Witness ==
    /\ call.n = 1 /\ call.wipe_type = MAP /\ call.result = TRUE
    /\ rcon_sent = << [server_name |-> "s1", wipe_type |-> MAP],
                      [server_name |-> "s1", wipe_type |-> FULL] >>
    /\ \E v \in DOMAIN views :
          /\ views[v].pc = "done"
          /\ wipe_history[1].set_by = ManualUser
          /\ wipe_history[1].executed_at > views[v].deadline - views[v].timeout
          /\ wipe_history[1].executed_at < views[v].deadline
    /\ ~ActivePoll(wipe_polls, "s1")
    /\ wipe_polls["s1"].winner = FULL

-----------------------------------------------------------------------------
(* The stored tally *)

\* C15: after an accepted vote on a poll that is the server's stored active
\* poll, the row's votes_map, votes_bp and votes_full equal the sizes of the
\* view's map, blueprint and full vote sets.
C15_StoredTallyMatchesVotes ==
    [][\A v \in DOMAIN views : \A u \in config.users : \A k \in WipeTypes :
          (/\ Accepted(v, u, k)
           /\ ActivePoll(wipe_polls', views[v].server_name)
           /\ wipe_polls'[views[v].server_name].message_id = views[v].message_id)
              => /\ wipe_polls'[views[v].server_name].votes_map = Cardinality(views'[v].votes[MAP])
                 /\ wipe_polls'[views[v].server_name].votes_bp = Cardinality(views'[v].votes[BLUEPRINT])
                 /\ wipe_polls'[views[v].server_name].votes_full = Cardinality(views'[v].votes[FULL])]_vars

-----------------------------------------------------------------------------
(* Errors in the scheduler tick *)

\* the tables as a tick finds them
TablesNow == [views |-> views, wipe_polls |-> wipe_polls, messages |-> messages]

\* C16: in every scheduler tick each configured server is handled as it would
\* be were it the only one, whether or not the handling of another server
\* raised: its stored poll is active afterwards exactly if its own pass makes
\* or leaves it active, for the same wipe, and a view is created for it exactly
\* if its own pass creates one; and the next tick is scheduled.
C16_TickSurvivesServerError ==
    [][check_upcoming_wipes =>
          /\ \A n \in ServerNames :
                LET alone == CheckServer(TablesNow, n, clock)
                IN /\ ActivePoll(wipe_polls', n) <=> ActivePoll(alone.wipe_polls, n)
                   /\ wipe_polls'[n].wipe_time = alone.wipe_polls[n].wipe_time
                   /\ Len(alone.views) > Len(views)
                         <=> \E v \in DOMAIN views' \ DOMAIN views : views'[v].server_name = n
          /\ nextTick' = clock + TickSeconds]_vars

\* a tick has just run in which posting the poll of s1 raised and the poll of
\* s2, handled after it, was opened
C16_Witness ==
    /\ nextTick = clock + TickSeconds
    /\ Raises(TablesNow, "s1", clock)
    /\ ~wipe_polls["s1"].exists
    /\ ActivePoll(wipe_polls, "s2")
    /\ \E v \in OpenViews("s2") : views[v].deadline - views[v].timeout = clock

-----------------------------------------------------------------------------
(* calculate_next_wipe *)

\* the time of day of an instant, in seconds
TimeOfDay(t) == t % DaySeconds

\* the instant matches the rule's weekday, hour and minute
OnRule(ws, t) ==
    /\ weekday(t) = ws.day_of_week
    /\ TimeOfDay(t) = ws.hour * HourSeconds + ws.minute * 60

\* what the last /wipestatus found for the server: a single instant
Answered(r) == call.fn = "wipestatus" /\ call.result["s1"] = {r}

\* C17: for a weekly rule the next wipe is an instant on the rule's weekday at
\* its hour and minute, strictly after now and at most seven days after now,
\* which makes it the earliest such instant; asked at the very instant of the
\* rule, the answer is seven days later.
C17_WeeklyNextOccurrence ==
    (call.fn = "wipestatus" /\ RuleOf(config).type = "weekly") =>
        \E r \in call.result["s1"] :
            /\ call.result["s1"] = {r}
            /\ OnRule(RuleOf(config), r)
            /\ r > clock
            /\ r - clock <= 7 * DaySeconds
            /\ OnRule(RuleOf(config), clock) => r = clock + 7 * DaySeconds

C17_Witness ==
    /\ RuleOf(config) = [type |-> "weekly", day_of_week |-> 3, hour |-> 14, minute |-> 0]
    /\ OnRule(RuleOf(config), clock)
    /\ Answered(clock + 7 * DaySeconds)

\* the first day of the month (y, m) that falls on weekday dow, at hour:minute
FirstWeekdayOfMonth(y, m, dow, hour, minute) ==
    LET d == CHOOSE d \in 1..7 : weekday(datetime(y, m, d, 0, 0)) = dow
    IN datetime(y, m, d, hour, minute)

\* the month after (y, m)
FollowingMonth(y, m) == IF m = 12 THEN [year |-> y + 1, month |-> 1] ELSE [year |-> y, month |-> m + 1]

\* C18: for a monthly rule the next wipe is the first target weekday of the
\* current month at the rule's time when that instant is strictly after now, and
\* the first target weekday of the following month otherwise (of January of the
\* next year when now is in December); it is strictly after now.
C18_MonthlyNextOccurrence ==
    (call.fn = "wipestatus" /\ RuleOf(config).type = "monthly") =>
        LET ws == RuleOf(config)
            this == FirstWeekdayOfMonth(year(clock), month(clock), ws.day_of_week, ws.hour, ws.minute)
            nm == FollowingMonth(year(clock), month(clock))
            following == FirstWeekdayOfMonth(nm.year, nm.month, ws.day_of_week, ws.hour, ws.minute)
        IN /\ call.result["s1"] = {IF this > clock THEN this ELSE following}
           /\ \A r \in call.result["s1"] : r > clock

\* asked in December an hour after the month's first Thursday 14:00, the answer
\* is the first Thursday of January of the next year
C18_Witness ==
    /\ RuleOf(config) = [type |-> "monthly", day_of_week |-> 3, hour |-> 14, minute |-> 0]
    /\ month(clock) = 12
    /\ clock = FirstWeekdayOfMonth(year(clock), 12, 3, 14, 0) + HourSeconds
    /\ Answered(FirstWeekdayOfMonth(year(clock) + 1, 1, 3, 14, 0))

-----------------------------------------------------------------------------
(* Who may vote *)

\* the member passes the authorization check of the server: the server asks for
\* no role, or the member holds the role it asks for
Authorized(server_name, u) ==
    \/ servers(server_name).admin_role_id = None
    \/ servers(server_name).admin_role_id \in RolesOf(u)

\* C19: a click of a member who is not authorized for the poll's server changes
\* no view (all three vote sets stay as they are) and no message and is answered
\* with the refusal; and every member found in a vote set is authorized.
C19_UnauthorizedVoteRejected ==
    /\ [](\A v \in DOMAIN views : \A u \in config.users :
             VotesOf(views[v], u) # {} => Authorized(views[v].server_name, u))
    /\ [][\A v \in DOMAIN views : \A u \in config.users :
             (/\ ~Authorized(views[v].server_name, u)
              /\ (map_vote(v, u) \/ bp_vote(v, u) \/ full_vote(v, u)))
                 => /\ views' = views
                    /\ messages' = messages
                    /\ response' = "denied"]_vars

\* member 2, who lacks the role, has just been refused on a poll in which
\* member 1 has voted
C19_Witness ==
    /\ response = "denied"
    /\ 2 \in config.users
    /\ \E v \in DOMAIN views :
          /\ views[v].pc = "open"
          /\ ~Authorized(views[v].server_name, 2)
          /\ views[v].votes = [EmptyVotes EXCEPT ![MAP] = {1}]

-----------------------------------------------------------------------------
(* Opening the poll *)

\* the bot can post to the server's channel
Postable(server_name) ==
    /\ get_channel(servers(server_name).discord_channel_id) # None
    /\ servers(server_name).discord_channel_id \notin config.forbidden

\* the server's next wipe as a tick at the clock sees it
UpcomingWipe(server_name) == CHOOSE w \in calculate_next_wipe(server_name, clock) : TRUE

\* the time until the server's next wipe lies inside the lead-time window
DueNow(server_name) ==
    /\ config.poll_hours_before_wipe * HourSeconds - HalfHourSeconds
          <= UpcomingWipe(server_name) - clock
    /\ UpcomingWipe(server_name) - clock <= config.poll_hours_before_wipe * HourSeconds

\* a poll has been announced for the wipe of the server at instant w
Announced(server_name, w) ==
    \E m \in DOMAIN messages :
        messages[m].server_name = server_name /\ messages[m].wipe_time = w

\* C20: once the lead-time window of a server's next wipe has gone by, a poll
\* has been announced for that wipe; and the tick that finds a server without
\* active poll inside the window creates a view with empty vote sets for that
\* wipe and stores the poll as active, before the wipe's resolution time (the
\* wipe minus one hour).
C20_EveryWipeGetsPoll ==
    /\ [](\A n \in ServerNames :
             (/\ Postable(n)
              /\ UpcomingWipe(n) - clock
                    < config.poll_hours_before_wipe * HourSeconds - HalfHourSeconds)
                 => Announced(n, UpcomingWipe(n)))
    /\ [][check_upcoming_wipes =>
             \A n \in ServerNames :
                 (Postable(n) /\ ~ActivePoll(wipe_polls, n) /\ DueNow(n)) =>
                     /\ ActivePoll(wipe_polls', n)
                     /\ wipe_polls'[n].wipe_time = UpcomingWipe(n)
                     /\ \E v \in DOMAIN views' \ DOMAIN views :
                           /\ views'[v].server_name = n
                           /\ views'[v].wipe_time = UpcomingWipe(n)
                           /\ views'[v].votes = EmptyVotes
                           /\ views'[v].pc = "open"
                     /\ clock < UpcomingWipe(n) - HourSeconds]_vars

-----------------------------------------------------------------------------
(* Votes during the resolution *)

\* on_timeout of view v is under way: between its first line and its return
Underway(v) == v \in DOMAIN views /\ views[v].pc \in {"rcon", "edit"}

\* C21: the tally and the winner of a resolution are those of the vote sets as
\* on_timeout finds them when it starts; no step taken while the resolution is
\* under way, a vote least of all, changes that tally or that winner; the
\* setting handed to the transport is that winner; and the message on_timeout
\* writes at its end shows that tally and that winner.
C21_VotesDuringResolutionIgnored ==
    [][\A v \in DOMAIN views :
          /\ Resolving(v) =>
                /\ views'[v].vote_counts = CountVotes(views[v].votes)
                /\ views'[v].winner = SelectWinner(CountVotes(views[v].votes))
          /\ (Underway(v) /\ v \in DOMAIN views' /\ views'[v].pc \in {"rcon", "edit"}) =>
                /\ views'[v].vote_counts = views[v].vote_counts
                /\ views'[v].winner = views[v].winner
          /\ Pushed(v) =>
                rcon_sent' = Append(rcon_sent, [server_name |-> views[v].server_name,
                                                wipe_type |-> views[v].winner])
          /\ on_timeout_finish(v, TRUE) =>
                /\ messages'[views[v].message_id].title = "ended"
                /\ messages'[views[v].message_id].counts = views[v].vote_counts
                /\ messages'[views[v].message_id].winner = views[v].winner
                /\ wipe_polls'[views[v].server_name].winner = views[v].winner]_vars

\* member 1 voted map after on_timeout had counted an empty poll: full was
\* pushed, and the final message shows no vote and full as the winner
C21_Witness ==
    \E v \in DOMAIN views :
        /\ views[v].pc = "done"
        /\ views[v].votes = [EmptyVotes EXCEPT ![MAP] = {1}]
        /\ messages[views[v].message_id].title = "ended"
        /\ messages[views[v].message_id].counts = ZeroCounts
        /\ messages[views[v].message_id].winner = FULL
        /\ rcon_sent = << [server_name |-> views[v].server_name, wipe_type |-> FULL] >>
        /\ wipe_polls[views[v].server_name].winner = FULL

-----------------------------------------------------------------------------
(* The stored poll after the resolution *)

\* on_timeout of view v returns in this step
EndsResolution(v) ==
    /\ v \in DOMAIN views /\ v \in DOMAIN views'
    /\ views[v].pc \in {"rcon", "edit"} /\ views'[v].pc = "done"

\* C22: when on_timeout returns, whatever the transport and the message edit
\* did, the server's stored poll is inactive and holds the winner on_timeout
\* selected; a tick that finds a server's stored poll inactive inside the
\* lead-time window opens a poll for it; and, unless the process restarted, no
\* stored poll is active once nothing is left to run.
C22_ResolutionDeactivatesPoll ==
    /\ [][\A v \in DOMAIN views :
             EndsResolution(v) =>
                 /\ ~ActivePoll(wipe_polls', views[v].server_name)
                 /\ wipe_polls'[views[v].server_name].winner = views[v].winner
                 /\ views[v].winner \in WipeTypes]_vars
    /\ [][check_upcoming_wipes =>
             \A n \in ServerNames :
                 (/\ wipe_polls[n].exists /\ ~wipe_polls[n].poll_active
                  /\ Postable(n) /\ DueNow(n))
                     => /\ ActivePoll(wipe_polls', n)
                        /\ wipe_polls'[n].message_id = Len(messages')]_vars
    /\ []((Quiet /\ restarts = 0) => \A n \in ServerNames : ~ActivePoll(wipe_polls, n))

\* a resolution whose push came back empty (set_wipe_type returned False and
\* wrote no history row) has returned: the stored poll is inactive with full
\* as its winner
C22_Witness ==
    /\ resolutions = << 1 >>
    /\ rcon_sent # << >>
    /\ wipe_history = << >>
    /\ \E n \in ServerNames :
          /\ wipe_polls[n].exists
          /\ ~wipe_polls[n].poll_active
          /\ wipe_polls[n].winner = FULL
          /\ messages[wipe_polls[n].message_id].title = "ended"
          /\ messages[wipe_polls[n].message_id].success = FALSE

-----------------------------------------------------------------------------
(* What set_wipe_type returns *)

\* C23: set_wipe_type returns True exactly when it has appended one history
\* row, with success true, for the server and the setting it was called with;
\* when it returns False the history is as before; it returns False for a server
\* that is not configured, without handing anything to the transport, and for
\* an empty response of the transport; and in a poll's resolution the success
\* on_timeout goes on with is true exactly when the row was appended.
C23_ReturnMatchesHistory ==
    [][/\ \A n \in CallNames : \A wt \in WipeTypes : \A outcome \in RconOutcomes \cup {None} :
             set_wipe_type(n, wt, ManualUser, outcome) =>
                 /\ call'.result = TRUE <=>
                        wipe_history' = Append(wipe_history,
                            [server_name |-> n, wipe_type |-> wt, set_by |-> ManualUser,
                             executed_at |-> clock, success |-> TRUE])
                 /\ call'.result = FALSE => wipe_history' = wipe_history
                 /\ n \notin ServerNames => (call'.result = FALSE /\ rcon_sent' = rcon_sent)
                 /\ call'.response = "" => call'.result = FALSE
       /\ \A v \in DOMAIN views :
             (Pushed(v) /\ views'[v].pc = "edit") =>
                 /\ views'[v].success = TRUE <=> Len(wipe_history') = Len(wipe_history) + 1
                 /\ views'[v].success = FALSE => wipe_history' = wipe_history]_vars

\* a direct call for s1 got an empty Message back: False, nothing in the history
C23_Witness ==
    /\ call.fn = "set_wipe_type"
    /\ call.server_name = "s1"
    /\ call.outcome = "reply_blank"
    /\ call.response = ""
    /\ call.result = FALSE
    /\ wipe_history = << >>
    /\ rcon_sent = << [server_name |-> "s1", wipe_type |-> call.wipe_type] >>

-----------------------------------------------------------------------------
(* A channel that is not found *)

\* the server's discord_channel_id is none of the channels the bot can see
Unfound(server_name) == servers(server_name).discord_channel_id \notin GuildChannels

\* C24: a scheduler tick leaves a server whose channel is not found as it was:
\* its stored poll is unchanged, no view is created for it and no message is
\* sent for it; such a server never has an active poll, a view or a message.
C24_UnknownChannelOpensNoPoll ==
    /\ [](\A n \in ServerNames : Unfound(n) =>
             /\ ~ActivePoll(wipe_polls, n)
             /\ \A v \in DOMAIN views : views[v].server_name # n
             /\ \A m \in DOMAIN messages : messages[m].server_name # n)
    /\ [][check_upcoming_wipes =>
             \A n \in ServerNames : Unfound(n) =>
                 /\ wipe_polls'[n] = wipe_polls[n]
                 /\ \A v \in DOMAIN views' \ DOMAIN views : views'[v].server_name # n
                 /\ \A m \in DOMAIN messages' \ DOMAIN messages : messages'[m].server_name # n]_vars

\* a tick has just found s1, whose channel is not found, inside its window
\* with no poll stored, and has left it so
C24_Witness ==
    /\ nextTick = clock + TickSeconds
    /\ Unfound("s1")
    /\ DueNow("s1")
    /\ ~wipe_polls["s1"].exists
    /\ \A v \in DOMAIN views : views[v].server_name # "s1"
    /\ \A m \in DOMAIN messages : messages[m].server_name # "s1"

====
